---- MODULE Spec2Model ----
(***************************************************************************)
(* Bit-level parsing of the DNS message header (dns_header) and the bit    *)
(* primitives it is built from (nom's bits::complete take and tag, as used *)
(* by dns_header and bitstreams_with_nom).                                 *)
(*                                                                         *)
(* A BitInput is the pair (remaining bytes, bit offset into the first of   *)
(* them).  Every parser is a pure function from a BitInput to an outcome:  *)
(*   Ok   : the rest of the input and the parsed value,                    *)
(*   Err  : nom's Err::Error(Error {input, code}),                         *)
(*   Panic: the thread panicked (a failed assert!, or an arithmetic check  *)
(*          of a debug build).                                             *)
(***************************************************************************)
EXTENDS Integers, Sequences, FiniteSets

VARIABLES
    input,      \* the BitInput the caller starts from
    calls,      \* the calls made so far, each with its input and outcome
    build       \* the build the program runs as: debug or release

vars == <<input, calls, build>>

----------------------------------------------------------------------------
(* Widths of the unsigned types of the parsers. *)

\* u8: the output of take_bit and take_nibble, and the pattern of parser
U8Bits == 8

\* u16: the output of take_u16
U16Bits == 16

\* usize, on a 64-bit target: the bit offset of a BitInput, and the counters
\* of take
UsizeBits == 64

(* Bounds of the model. *)

\* the longest buffer handed to Header::deserialize, in bytes
MaxLen == 14

\* the longest buffer handed to the bit primitives, in bytes
MaxBufLen == 3

----------------------------------------------------------------------------
(* Integer helpers. *)

RECURSIVE Pow2(_)
Pow2(n) == IF n = 0 THEN 1 ELSE 2 * Pow2(n - 1)

\* x << s on an unsigned type of w bits: the bits shifted out are dropped
Shl(x, s, w) == (x * Pow2(s)) % Pow2(w)

\* x >> s
Shr(x, s) == x \div Pow2(s)

Min(a, b) == IF a < b THEN a ELSE b

----------------------------------------------------------------------------
(* Outcomes (nom's IResult, plus a panic). *)

BitInput(data, off) == [data |-> data, off |-> off]

Ok(rest, out) == [tag |-> "Ok", rest |-> rest, out |-> out]

Err(i, code) == [tag |-> "Err", input |-> i, code |-> code]

Panic(msg) == [tag |-> "Panic", msg |-> msg]

IsOk(r) == r.tag = "Ok"

IsErr(r) == r.tag = "Err"

IsPanic(r) == r.tag = "Panic"

\* input.slice(cnt..)
Slice(data, cnt) == SubSeq(data, cnt + 1, Len(data))

----------------------------------------------------------------------------
(* nom::bits::complete::take(count), returning an unsigned type of w bits. *)
(* Its arithmetic is that of u8, of the output type and of usize: a shift  *)
(* by the width of the type or more, a sum past the type and a difference  *)
(* below zero panic in a debug build; in a release build the shift is by   *)
(* the amount modulo the width and the sum and the difference wrap.        *)

Builds == {"debug", "release"}

\* the checks of a debug build are on
Checked == build = "debug"

\* the loop's state when it ends, or the panic that ends it
LoopEnd(acc, end_offset) == [acc |-> acc, end_offset |-> end_offset, panic |-> ""]

LoopPanic(msg) == [acc |-> 0, end_offset |-> 0, panic |-> msg]

\* (byte << offset) as u8 >> offset: u8 shifts, by offset modulo 8
Masked(byte, offset) ==
    Shr(Shl(byte, offset % U8Bits, U8Bits), offset % U8Bits)

\* a mutant of TakeLoop: the bits before the offset are not masked off
RECURSIVE TakeLoopNoMask(_, _, _, _, _, _, _, _)
TakeLoopNoMask(data, idx, last, acc, offset, remaining, end_offset, w) ==
    IF idx > last \/ remaining = 0
    THEN LoopEnd(acc, end_offset)
    ELSE LET val == data[idx]
         IN  IF remaining < 8 - offset
             THEN LoopEnd((acc + Shr(val, 8 - offset - remaining)) % Pow2(w),
                          remaining + offset)
             ELSE TakeLoopNoMask(data, idx + 1, last,
                                 (acc + Shl(val, remaining - (8 - offset), w)) % Pow2(w),
                                 0, remaining - (8 - offset), end_offset, w)

\* x \div 2^n
RECURSIVE Above(_, _)
Above(x, n) == IF n = 0 \/ x = 0 THEN x ELSE Above(x \div 2, n - 1)

\* a sum x of two usize values is past usize::MAX
Overflows(x) == Above(x, UsizeBits) # 0

\* the usize that the sum x of two usize values wraps to
Wrapped(x) == IF Overflows(x) THEN x - Pow2(UsizeBits) ELSE x

\* The loop over the first cnt + 1 bytes: acc accumulates the value,
\* offset is the bit offset into the current byte, remaining the bits
\* still to read, end_offset the bit offset after the last bit read.
\* offset, remaining and end_offset are usize values. For an offset above
\* 8, 8 - offset wraps to 2^64 + 8 - offset: remaining is below it unless
\* offset - 8 + remaining reaches 2^64, and a shift by it is by it modulo
\* the width, which divides 2^64.
RECURSIVE TakeLoop(_, _, _, _, _, _, _, _)
TakeLoop(data, idx, last, acc, offset, remaining, end_offset, w) ==
    IF idx > last \/ remaining = 0
    THEN LoopEnd(acc, end_offset)
    ELSE IF offset >= U8Bits /\ Checked
    THEN LoopPanic("attempt to shift left with overflow")
    ELSE LET byte  == data[idx]
             val   == IF offset = 0 THEN byte ELSE Masked(byte, offset)
             under == offset > 8
             short == IF under
                      THEN ~Overflows(offset - 8 + remaining)
                      ELSE remaining < 8 - offset
         IN  IF under /\ Checked
             THEN LoopPanic("attempt to subtract with overflow")
             ELSE IF short
             THEN LET sum == acc + Shr(val, (8 - offset - remaining) % w)
                      end == remaining + offset
                  IN  IF (sum >= Pow2(w) \/ Overflows(end)) /\ Checked
                      THEN LoopPanic("attempt to add with overflow")
                      ELSE LoopEnd(sum % Pow2(w), Wrapped(end))
             ELSE LET left == IF under
                              THEN offset - 8 + remaining - Pow2(UsizeBits)
                              ELSE remaining - (8 - offset)
                      sum  == acc + Shl(val, left % w, w)
                  IN  IF left >= w /\ Checked
                      THEN LoopPanic("attempt to shift left with overflow")
                      ELSE IF sum >= Pow2(w) /\ Checked
                      THEN LoopPanic("attempt to add with overflow")
                      ELSE TakeLoop(data, idx + 1, last, sum % Pow2(w),
                                    0, left, end_offset, w)

\* what take returns when its loop ends as l, cnt bytes consumed
TakeEnd(i, cnt, l) ==
    IF l.panic # "" THEN Panic(l.panic)
    ELSE Ok(BitInput(Slice(i.data, cnt), l.end_offset), l.acc)

\* a mutant of take: the bytes consumed are counted without the bit offset
take_no_carry(count, w, i) ==
    IF count = 0
    THEN Ok(i, 0)
    ELSE LET cnt == count \div 8
         IN  IF Len(i.data) * 8 < count + i.off
             THEN Err(i, "Eof")
             ELSE TakeEnd(i, cnt, TakeLoop(i.data, 1, Min(cnt + 1, Len(i.data)),
                                           0, i.off, count, 0, w))

\* a mutant of take: bits that are not there are read as zeros
take_zero_padded(count, w, i) ==
    IF count = 0
    THEN Ok(i, 0)
    ELSE LET cnt == (count + i.off) \div 8
         IN  IF Len(i.data) * 8 < count + i.off
             THEN Ok(BitInput(<<>>, 0), 0)
             ELSE TakeEnd(i, cnt, TakeLoop(i.data, 1, Min(cnt + 1, Len(i.data)),
                                           0, i.off, count, 0, w))

\* count + bit_offset is a usize sum
take(count, w, i) ==
    IF count = 0
    THEN Ok(i, 0)
    ELSE IF Overflows(count + i.off) /\ Checked
    THEN Panic("attempt to add with overflow")
    ELSE LET sum == Wrapped(count + i.off)
             cnt == sum \div 8
         IN  IF Len(i.data) * 8 < sum
             THEN Err(i, "Eof")
             ELSE TakeEnd(i, cnt, TakeLoop(i.data, 1, Min(cnt + 1, Len(i.data)),
                                           0, i.off, count, 0, w))

\* nom::bits::complete::tag(pattern, count), the pattern of w bits
tag(pattern, count, w, i) ==
    LET r == take(count, w, i)
    IN  IF ~IsOk(r) THEN r
        ELSE IF pattern = r.out THEN Ok(r.rest, r.out)
        ELSE Err(i, "TagBits")

\* parser: tag with a u8 pattern and a u8 count
parser(pattern, count, i) == tag(pattern, count, U8Bits, i)

\* a mutant of take_bit: the bit is not consumed
take_bit_stuck(i) ==
    LET r == take(1, U8Bits, i)
    IN  IF IsOk(r) THEN Ok(i, r.out # 0) ELSE r

\* a mutant of take_bit: the sense of the bit is inverted
take_bit_inverted(i) ==
    LET r == take(1, U8Bits, i)
    IN  IF IsOk(r) THEN Ok(r.rest, r.out = 0) ELSE r

\* take_bit: one bit, as a bool
take_bit(i) ==
    LET r == take(1, U8Bits, i)
    IN  IF IsOk(r) THEN Ok(r.rest, r.out # 0) ELSE r

\* take_nibble: four bits, in a u8
take_nibble(i) == take(4, U8Bits, i)

\* take_u16: sixteen bits, most significant bit first
take_u16(i) == take(16, U16Bits, i)

----------------------------------------------------------------------------
(* The enumerations and their conversions. *)

ConvOk(v) == [ok |-> TRUE, val |-> v]

\* anyhow::bail!("Unknown ... {other}"): an error that holds the raw value
ConvErr(what, other) == [ok |-> FALSE, msg |-> what, value |-> other]

OpcodeTryFrom(value) ==
    IF value = 0 THEN ConvOk("Query")
    ELSE IF value = 1 THEN ConvOk("InverseQuery")
    ELSE IF value = 2 THEN ConvOk("Status")
    ELSE ConvErr("Unknown opcode", value)

\* ResponseCode and its conversion are not among the sources: the table is
\* that of the specification (section 4.2, step 6)
ResponseCodeTryFrom(value) ==
    IF value = 0 THEN ConvOk("NoError")
    ELSE IF value = 1 THEN ConvOk("FormatError")
    ELSE IF value = 2 THEN ConvOk("ServerFailure")
    ELSE IF value = 3 THEN ConvOk("NameError")
    ELSE IF value = 4 THEN ConvOk("NotImplemented")
    ELSE IF value = 5 THEN ConvOk("Refused")
    ELSE ConvErr("Unknown response code", value)

\* E::from_external_error for nom::error::Error<I>, the error type of
\* IResult<BitInput, _>: the input and the kind are kept, e is dropped
FromExternalError(i, kind, e) == Err(i, kind)

\* map_res(take_nibble, Opcode::try_from): the nibble, converted; a failed
\* conversion is an error of kind MapRes at the input before the nibble
take_opcode(i) ==
    LET r == take_nibble(i)
    IN  IF ~IsOk(r) THEN r
        ELSE LET c == OpcodeTryFrom(r.out)
             IN  IF c.ok THEN Ok(r.rest, c.val)
                 ELSE FromExternalError(i, "MapRes", c)

\* map_res(take_nibble, ResponseCode::try_from)
take_rcode(i) ==
    LET r == take_nibble(i)
    IN  IF ~IsOk(r) THEN r
        ELSE LET c == ResponseCodeTryFrom(r.out)
             IN  IF c.ok THEN Ok(r.rest, c.val)
                 ELSE FromExternalError(i, "MapRes", c)

----------------------------------------------------------------------------
(* Header::deserialize. *)

\* what is left of the loop over the Z bits when `left` bits are to be read
RECURSIVE ZLoop(_, _)
ZLoop(i, left) ==
    IF left = 0 THEN Ok(i, TRUE)
    ELSE LET r == take_bit(i)
         IN  IF ~IsOk(r) THEN r
             ELSE IF r.out THEN Panic("assertion failed: !z")
             ELSE ZLoop(r.rest, left - 1)

\* the Header built at the end of deserialize
Header(id, qr, opcode, aa, tc, rd, ra, rcode, qdcount, ancount, nscount, arcount) ==
    [id |-> id, is_query |-> qr, opcode |-> opcode,
     authoritative_answer |-> aa, truncation |-> tc,
     recursion_desired |-> rd, recursion_available |-> ra,
     resp_code |-> rcode, question_count |-> qdcount, answer_count |-> ancount,
     name_server_count |-> nscount, additional_records_count |-> arcount]

Deserialize(i) ==
    LET id == take_u16(i) IN
    IF ~IsOk(id) THEN id ELSE
    LET qr == take_bit(id.rest) IN
    IF ~IsOk(qr) THEN qr ELSE
    LET opcode == take_opcode(qr.rest) IN
    IF ~IsOk(opcode) THEN opcode ELSE
    LET aa == take_bit(opcode.rest) IN
    IF ~IsOk(aa) THEN aa ELSE
    LET tc == take_bit(aa.rest) IN
    IF ~IsOk(tc) THEN tc ELSE
    LET rd == take_bit(tc.rest) IN
    IF ~IsOk(rd) THEN rd ELSE
    LET ra == take_bit(rd.rest) IN
    IF ~IsOk(ra) THEN ra ELSE
    LET z == ZLoop(ra.rest, 3) IN
    IF ~IsOk(z) THEN z ELSE
    LET rcode == take_rcode(z.rest) IN
    IF ~IsOk(rcode) THEN rcode ELSE
    LET qdcount == take_u16(rcode.rest) IN
    IF ~IsOk(qdcount) THEN qdcount ELSE
    LET ancount == take_u16(qdcount.rest) IN
    IF ~IsOk(ancount) THEN ancount ELSE
    LET nscount == take_u16(ancount.rest) IN
    IF ~IsOk(nscount) THEN nscount ELSE
    LET arcount == take_u16(nscount.rest) IN
    IF ~IsOk(arcount) THEN arcount ELSE
    Ok(arcount.rest,
       Header(id.out, qr.out, opcode.out, aa.out, tc.out, rd.out, ra.out,
              rcode.out, qdcount.out, ancount.out, nscount.out, arcount.out))

----------------------------------------------------------------------------
(* The wire format, read by absolute bit position: what the fields of a    *)
(* buffer are, independently of how the parsers walk it.                   *)

\* bit p (from 0, most significant bit of a byte first) of data
BitAt(data, p) == (data[(p \div 8) + 1] \div Pow2(7 - (p % 8))) % 2

\* the n bits of data from bit p, most significant first: each bit
\* contributes value * 2 + bit
RECURSIVE BitsValue(_, _, _)
BitsValue(data, p, n) ==
    IF n = 0 THEN 0
    ELSE BitsValue(data, p, n - 1) * 2 + BitAt(data, p + n - 1)

\* the bit offset of cursor c is into its first byte: what take leaves, and
\* what it needs (past that, its loop shifts and counts out of range)
WellFormed(c) == c.off < U8Bits

\* absolute bit position of cursor c over the caller's data
AbsPos(c) == 8 * (Len(input.data) - Len(c.data)) + c.off

\* the bits of the caller's data
TotalBits == 8 * Len(input.data)

\* the fields in their fixed order, each with its offset from the start of
\* the header and its width
Fields ==
    << [name |-> "id",      at |-> 0,  width |-> 16],
       [name |-> "qr",      at |-> 16, width |-> 1],
       [name |-> "opcode",  at |-> 17, width |-> 4],
       [name |-> "aa",      at |-> 21, width |-> 1],
       [name |-> "tc",      at |-> 22, width |-> 1],
       [name |-> "rd",      at |-> 23, width |-> 1],
       [name |-> "ra",      at |-> 24, width |-> 1],
       [name |-> "z0",      at |-> 25, width |-> 1],
       [name |-> "z1",      at |-> 26, width |-> 1],
       [name |-> "z2",      at |-> 27, width |-> 1],
       [name |-> "rcode",   at |-> 28, width |-> 4],
       [name |-> "qdcount", at |-> 32, width |-> 16],
       [name |-> "ancount", at |-> 48, width |-> 16],
       [name |-> "nscount", at |-> 64, width |-> 16],
       [name |-> "arcount", at |-> 80, width |-> 16] >>

\* the header's length in bits
HeaderBits == Fields[Len(Fields)].at + Fields[Len(Fields)].width

\* field f of the caller's buffer is wholly there
Available(f) == input.off + f.at + f.width <= TotalBits

\* the raw value of field f (which must be available)
Raw(f) == BitsValue(input.data, input.off + f.at, f.width)

\* field f is there and holds a value the format forbids
Invalid(f) ==
    /\ Available(f)
    /\ \/ f.name = "opcode" /\ Raw(f) \notin {0, 1, 2}
       \/ f.name \in {"z0", "z1", "z2"} /\ Raw(f) # 0
       \/ f.name = "rcode" /\ Raw(f) \notin 0..5

\* the fields, by index, that stop the decoding: not there, or invalid
Failing == {j \in 1..Len(Fields) : ~Available(Fields[j]) \/ Invalid(Fields[j])}

\* the earliest of them
FirstFailing == CHOOSE j \in Failing : \A m \in Failing : j <= m

FieldNamed(n) == Fields[CHOOSE j \in 1..Len(Fields) : Fields[j].name = n]

----------------------------------------------------------------------------
(* Buffers handed to Header::deserialize: a header laid out from its field *)
(* values at a bit offset, in a buffer cut to some length.                 *)

\* v as n bits, most significant first
Bits(v, n) == [j \in 1..n |-> (v \div Pow2(n - j)) % 2]

Ones(n) == [j \in 1..n |-> 1]

\* eight bits to a byte, most significant first
PackBytes(bits) ==
    [b \in 1..(Len(bits) \div 8) |->
        LET B(j) == bits[8 * (b - 1) + j]
        IN  128 * B(1) + 64 * B(2) + 32 * B(3) + 16 * B(4)
            + 8 * B(5) + 4 * B(6) + 2 * B(7) + B(8)]

WireBits(h) ==
    Bits(h.id, 16) \o <<h.qr>> \o Bits(h.opcode, 4)
    \o <<h.aa, h.tc, h.rd, h.ra>> \o Bits(h.z, 3) \o Bits(h.rcode, 4)
    \o Bits(h.qdcount, 16) \o Bits(h.ancount, 16)
    \o Bits(h.nscount, 16) \o Bits(h.arcount, 16)

\* the header h at bit offset k of a buffer of len bytes; the bits around
\* the header are ones
Buffer(h, k, len) ==
    LET bits == Ones(k) \o WireBits(h) \o Ones(8 * MaxLen)
    IN  SubSeq(PackBytes(SubSeq(bits, 1, 8 * MaxLen)), 1, len)

\* 8 and 9 are past the first byte
StartOffsets == {0, 3, 7, 8, 9}

\* the bytes that just hold a header at bit offset k
Need(k) == (k + HeaderBits + 7) \div 8

\* every value of the flag word's fields, in whole buffers
SweepHeaders ==
    {[id |-> 1, qr |-> qr, opcode |-> op, aa |-> fl[1], tc |-> fl[2],
      rd |-> fl[3], ra |-> fl[4], z |-> z, rcode |-> rc,
      qdcount |-> 1, ancount |-> 1, nscount |-> 0, arcount |-> 0] :
        qr \in 0..1, op \in 0..15, fl \in {<<0, 0, 1, 1>>, <<1, 1, 0, 0>>},
        z \in 0..7, rc \in {0, 5, 6}}

\* fewer values of them, and other identifiers and counts, in buffers of
\* every length
CutHeaders ==
    {[id |-> id, qr |-> qr, opcode |-> op, aa |-> 0, tc |-> 1,
      rd |-> 0, ra |-> 1, z |-> z, rcode |-> rc,
      qdcount |-> cn[1], ancount |-> cn[2], nscount |-> cn[3], arcount |-> cn[4]] :
        id \in {1, 65535}, qr \in 0..1, op \in {0, 2, 3}, z \in {0, 1},
        rc \in {0, 6}, cn \in {<<1, 1, 0, 0>>, <<65535, 0, 258, 1>>}}

----------------------------------------------------------------------------
(* The decoder: a caller holds a buffer and decodes a header from it.      *)

Call(fn, count, pattern, from, res) ==
    [fn |-> fn, count |-> count, pattern |-> pattern, from |-> from, res |-> res]

Init ==
    /\ \/ \E h \in SweepHeaders, k \in StartOffsets :
              \E len \in {Need(k), MaxLen} :
                 input = BitInput(Buffer(h, k, len), k)
       \/ \E h \in CutHeaders, k \in StartOffsets, len \in 0..MaxLen :
              input = BitInput(Buffer(h, k, len), k)
    /\ calls = <<>>
    /\ build \in Builds

DeserializeCall ==
    /\ calls = <<>>
    /\ calls' = <<Call("deserialize", 0, 0, input, Deserialize(input))>>
    /\ UNCHANGED <<input, build>>

Next == DeserializeCall

Spec == Init /\ [][Next]_vars

\* the call made and its outcome
Done == Len(calls) = 1 /\ calls[1].fn = "deserialize"

Res == calls[1].res

FieldNames ==
    {"id", "is_query", "opcode", "authoritative_answer", "truncation",
     "recursion_desired", "recursion_available", "resp_code", "question_count",
     "answer_count", "name_server_count", "additional_records_count"}

\* the buffer holds the whole header
Whole == Available(FieldNamed("arcount"))

\* the scenario of the specification: a response to a standard query
ScenarioBytes == <<0, 1, 129, 128, 0, 1, 0, 1, 0, 0, 0, 0>>

InScenario == Done /\ input = BitInput(ScenarioBytes, 0)

----------------------------------------------------------------------------
(* Claims about Header::deserialize. *)

\* C1: on success, is_query is the negation of the QR bit (true exactly
\* when the bit is 0).
C1_IsQueryNegatesQR ==
    (Done /\ WellFormed(input) /\ IsOk(Res)) => (Res.out.is_query = (Raw(FieldNamed("qr")) = 0))

\* C2: a 12-byte buffer that is valid but for one or more reserved bits set
\* makes deserialize return a Reserved Bits Nonzero error as a value: not a
\* Header, not another error, not an abort.
C2_ReservedBitsError ==
    (/\ Done
     /\ input.off = 0
     /\ Len(input.data) = 12
     /\ Failing # {}
     /\ \A j \in Failing : Fields[j].name \in {"z0", "z1", "z2"})
    => (IsErr(Res) /\ Res.code = "ReservedBitsNonzero")

\* C3: an opcode field holding c in 3..15 makes deserialize fail with an
\* Unknown Opcode error that carries c; 0, 1, 2 become Query, InverseQuery,
\* Status and nothing else becomes an opcode.
C3_UnknownOpcodeCarried ==
    (Done /\ WellFormed(input) /\ Available(FieldNamed("opcode")))
    => LET c == Raw(FieldNamed("opcode"))
       IN  /\ c \in 3..15 =>
                /\ IsErr(Res)
                /\ "value" \in DOMAIN Res
                /\ Res.value = c
           /\ IsOk(Res) =>
                Res.out.opcode = <<"Query", "InverseQuery", "Status">>[c + 1]

\* C4: a buffer too short for the header, whose available fields are all
\* valid, makes deserialize (started at bit offset 0, or at any bit offset
\* into the first byte) fail with Eof at the start of the first field that
\* is not wholly there; no Header is returned.
C4_TruncatedEof ==
    (/\ Done
     /\ WellFormed(input)
     /\ ~Whole
     /\ \A j \in 1..Len(Fields) : ~Invalid(Fields[j]))
    => /\ IsErr(Res)
       /\ Res.code = "Eof"
       /\ AbsPos(Res.input) = input.off + Fields[FirstFailing].at
       /\ Res.input.data = Slice(input.data, AbsPos(Res.input) \div 8)

C4_Witness ==
    /\ Done
    /\ input.off = 0
    /\ Len(input.data) = 3
    /\ \A j \in 1..Len(Fields) : ~Invalid(Fields[j])
    /\ IsErr(Res)
    /\ Fields[FirstFailing].name = "ra"

\* C5: a successful deserialize consumes exactly 96 bits: the cursor it
\* returns is 96 bits past the starting bit position; started at bit offset
\* 0 it ends byte-aligned at byte 12.
C5_Consumes96 ==
    (Done /\ IsOk(Res))
    => /\ HeaderBits = 96
       /\ AbsPos(Res.rest) = input.off + HeaderBits
       /\ Res.rest.off = (input.off + HeaderBits) % 8
       /\ Res.rest.data = Slice(input.data, (input.off + HeaderBits) \div 8)
       /\ input.off = 0 =>
              Res.rest.off = 0 /\ Res.rest.data = Slice(input.data, 12)

C5_Witness ==
    /\ Done
    /\ IsOk(Res)
    /\ input.off = 0
    /\ Len(input.data) = MaxLen
    /\ Res.rest = BitInput(Slice(input.data, 12), 0)
    /\ Raw(FieldNamed("opcode")) = 2
    /\ Raw(FieldNamed("rcode")) = 5

\* C6, as stated: the scenario decodes to id=1, is_query=false,
\* opcode=Query, aa=false, tc=false, rd=false, ra=true, NoError and the
\* counts 1, 1, 0, 0.
C6_ScenarioAsStated ==
    InScenario
    => /\ IsOk(Res)
       /\ Res.out = [id |-> 1, is_query |-> FALSE, opcode |-> "Query",
                     authoritative_answer |-> FALSE, truncation |-> FALSE,
                     recursion_desired |-> FALSE, recursion_available |-> TRUE,
                     resp_code |-> "NoError", question_count |-> 1,
                     answer_count |-> 1, name_server_count |-> 0,
                     additional_records_count |-> 0]

\* C6, amended: the scenario decodes to id=1, opcode=Query, aa=false,
\* tc=false, rd=true (0x81 has the RD bit set), ra=true, NoError and the
\* counts 1, 1, 0, 0, the cursor at byte 12.
C6_Scenario ==
    InScenario
    => /\ IsOk(Res)
       /\ DOMAIN Res.out = FieldNames
       /\ Res.out.id = 1
       /\ Res.out.opcode = "Query"
       /\ Res.out.authoritative_answer = FALSE
       /\ Res.out.truncation = FALSE
       /\ Res.out.recursion_desired = TRUE
       /\ Res.out.recursion_available = TRUE
       /\ Res.out.resp_code = "NoError"
       /\ Res.out.question_count = 1
       /\ Res.out.answer_count = 1
       /\ Res.out.name_server_count = 0
       /\ Res.out.additional_records_count = 0
       /\ Res.rest = BitInput(<<>>, 0)

C6_Witness == InScenario /\ IsOk(Res) /\ Res.out.recursion_desired

\* C7: the outcome is a complete Header or a single error and no Header,
\* and the error is that of the earliest field, in the fixed order, that
\* is invalid or lacks input.
C7_FailFast ==
    (Done /\ WellFormed(input))
    => /\ Failing = {} => (IsOk(Res) /\ DOMAIN Res.out = FieldNames)
       /\ Failing # {} =>
            /\ IsErr(Res)
            /\ AbsPos(Res.input) = input.off + Fields[FirstFailing].at

\* The same with a failed assertion counted as the outcome of a reserved
\* bit: what holds of the order of the checks as they are written.
FailFastOrder ==
    (Done /\ WellFormed(input))
    => /\ Failing = {} => (IsOk(Res) /\ DOMAIN Res.out = FieldNames)
       /\ Failing # {} =>
            LET f == Fields[FirstFailing]
            IN  IF Invalid(f) /\ f.name \in {"z0", "z1", "z2"}
                THEN IsPanic(Res)
                ELSE /\ IsErr(Res)
                     /\ Res.code = (IF Invalid(f) THEN "MapRes" ELSE "Eof")
                     /\ AbsPos(Res.input) = input.off + f.at

----------------------------------------------------------------------------
(* The bit primitives on their own: a caller holds a short buffer and a    *)
(* bit offset into it, extracts bits from it once or twice in a row, or    *)
(* matches a pattern against it.                                           *)

ByteValues == {175, 129, 92}

PatternValues == {0, 1, 3, 10, 15, 129, 175}

\* 8 and 9 are past the first byte
BitOffsets == 0..9

RECURSIVE SeqsOf(_, _)
SeqsOf(S, n) ==
    IF n = 0 THEN {<<>>}
    ELSE {Append(q, x) : q \in SeqsOf(S, n - 1), x \in S}

InitBits ==
    /\ \E len \in 0..MaxBufLen :
         \E data \in SeqsOf(ByteValues, len), k \in BitOffsets :
            /\ len = 0 => k = 0
            /\ input = BitInput(data, k)
    /\ calls = <<>>
    /\ build \in Builds

\* the extractions so far all succeeded, and one more may follow
Threaded ==
    /\ Len(calls) < 2
    /\ \A j \in 1..Len(calls) :
          calls[j].fn \in {"take", "take_bit"} /\ IsOk(calls[j].res)

\* where the next extraction starts
Cursor == IF calls = <<>> THEN input ELSE calls[Len(calls)].res.rest

\* the bits extracted so far
Taken == IF calls = <<>> THEN 0 ELSE calls[1].count

\* take(count) into a u16, count at most the bits a u16 holds in all
TakeCall ==
    /\ Threaded
    /\ \E n \in 1..(U16Bits - Taken) :
          calls' = Append(calls, Call("take", n, 0, Cursor, take(n, U16Bits, Cursor)))
    /\ UNCHANGED <<input, build>>

TakeBitCall ==
    /\ Threaded
    /\ calls' = Append(calls, Call("take_bit", 1, 0, Cursor, take_bit(Cursor)))
    /\ UNCHANGED <<input, build>>

TakeNibbleCall ==
    /\ calls = <<>>
    /\ calls' = <<Call("take_nibble", 4, 0, input, take_nibble(input))>>
    /\ UNCHANGED <<input, build>>

TakeU16Call ==
    /\ calls = <<>>
    /\ calls' = <<Call("take_u16", 16, 0, input, take_u16(input))>>
    /\ UNCHANGED <<input, build>>

ParserCall ==
    /\ calls = <<>>
    /\ \E pattern \in PatternValues, n \in 1..U16Bits :
          calls' = <<Call("parser", n, pattern, input, parser(pattern, n, input))>>
    /\ UNCHANGED <<input, build>>

NextBits ==
    \/ TakeCall
    \/ TakeBitCall
    \/ TakeNibbleCall
    \/ TakeU16Call
    \/ ParserCall

SpecBits == InitBits /\ [][NextBits]_vars

\* the bits call c asks for are there
Enough(c) == c.from.off + c.count <= 8 * Len(c.from.data)

\* the bits call c asks for, read most significant bit first
Wanted(c) == BitsValue(input.data, AbsPos(c.from), c.count)

----------------------------------------------------------------------------
(* Claims about the bit primitives. *)

\* C8: extracting n bits that are there, from any bit position (a cursor
\* at the byte of the position, the bit offset into that byte), returns
\* them read most significant bit first, and a cursor n bits further over
\* the same data; take_bit returns true exactly when its bit is 1.
C8_TakeValueAndAdvance ==
    \A j \in 1..Len(calls) :
        LET c == calls[j]
        IN  (/\ c.fn \in {"take", "take_bit", "take_nibble", "take_u16"}
             /\ WellFormed(c.from)
             /\ Enough(c))
            => /\ IsOk(c.res)
               /\ IF c.fn = "take_bit"
                  THEN c.res.out = (BitAt(input.data, AbsPos(c.from)) = 1)
                  ELSE c.res.out = Wanted(c)
               /\ AbsPos(c.res.rest) = AbsPos(c.from) + c.count
               /\ c.res.rest.off = (AbsPos(c.from) + c.count) % 8
               /\ c.res.rest.data =
                      Slice(input.data, (AbsPos(c.from) + c.count) \div 8)

\* sixteen bits that start inside a byte and end inside the next but one
C8_Witness ==
    /\ Len(calls) = 1
    /\ calls[1].fn = "take"
    /\ calls[1].count = 16
    /\ input.off = 5
    /\ IsOk(calls[1].res)
    /\ calls[1].res.out > 4096
    /\ calls[1].res.rest.off = 5

\* what C9 says of call c
TagMatches(c) ==
    IF Wanted(c) = c.pattern
    THEN /\ IsOk(c.res)
         /\ c.res.out = c.pattern
         /\ AbsPos(c.res.rest) = AbsPos(c.from) + c.count
    ELSE /\ IsErr(c.res)
         /\ c.res.code = "TagBits"
         /\ c.res.input = c.from

\* C9: matching a pattern p of n bits that are there succeeds
\* exactly when they equal p, and then leaves the cursor n bits further;
\* when they differ it fails with a mismatch error that holds the cursor as
\* it was.
C9_TagMatchAnyCount ==
    \A j \in 1..Len(calls) :
        LET c == calls[j]
        IN  (c.fn = "parser" /\ WellFormed(c.from) /\ Enough(c))
            => TagMatches(c)

\* parser with a count n of 1 to 8, the bits that the u8 of its pattern
\* holds, does match as C9 says
TagMatchU8 ==
    \A j \in 1..Len(calls) :
        LET c == calls[j]
        IN  (/\ c.fn = "parser"
             /\ c.count <= U8Bits
             /\ WellFormed(c.from)
             /\ Enough(c))
            => TagMatches(c)

\* C10: extracting a bits and then b bits from the cursor returned gives,
\* put together most significant first, the value and the cursor of one
\* extraction of a + b bits.
C10_SplitSymmetry ==
    (/\ Len(calls) = 2
     /\ WellFormed(input)
     /\ calls[1].fn = "take"
     /\ calls[2].fn = "take"
     /\ IsOk(calls[2].res))
    => LET a     == calls[1].count
           b     == calls[2].count
           whole == take(a + b, U16Bits, input)
       IN  /\ IsOk(whole)
           /\ whole.out = calls[1].res.out * Pow2(b) + calls[2].res.out
           /\ whole.rest = calls[2].res.rest

\* 3 bits and then 13, from bit 6: both parts and the whole cross bytes
C10_Witness ==
    /\ Len(calls) = 2
    /\ calls[1].fn = "take"
    /\ calls[2].fn = "take"
    /\ IsOk(calls[2].res)
    /\ input.off = 6
    /\ calls[1].count = 3
    /\ calls[2].count = 13
    /\ calls[1].res.out # 0
    /\ calls[2].res.out # 0

====
